---- MODULE Spec2Model ----
(***************************************************************************)
(* Tool-serving protocol layer of the student API repository: the SSE      *)
(* session registry (transports map, GET /sse, POST /message, close        *)
(* handler) and the tools/call dispatch tables of the four programs found  *)
(* in the sources:                                                         *)
(*   app_min   src/app.js lines 1-270       (two tools, no validation)     *)
(*   app_full  src/app.js lines 271-1067    (nine tools, zod validation)   *)
(*   app_echo  src/unnamed/part_000         (echo, add, get_all_students)  *)
(*   mcp_stdio src/mcp-server.js            (stdio server proxying by HTTP *)
(*             to the REST routes of src/unnamed/part_001)                 *)
(* Specifications:                                                         *)
(*   Spec          sessions, posted tool calls, health and stub endpoints  *)
(*   SpecOrder     sessions with POST bodies read asynchronously           *)
(*   SpecDispatch  tools/call and tools/list of all four programs          *)
(*   SpecRegistry  tools/list and tools/call over sessions and stdio       *)
(*   SpecShutdown  sessions and the SIGINT handler                         *)
(*   SpecLive      Spec with the continuation of server.connect scheduled  *)
(*   SpecSessions  sessions with tool calls awaiting the Data Store         *)
(***************************************************************************)
EXTENDS Integers, Sequences, FiniteSets, TLC

\* ------------------------------------------------------------------ bounds
MaxConn == 2       \* GET /sse requests the server receives
MaxStudents == 2   \* row ids of table ogrenciler
MaxPosts == 2      \* POST /message requests that arrive while bodies are being read
MaxSigint == 2     \* interrupt signals the process receives

Reqs == 1..MaxConn
Ids == 1..MaxConn              \* session ids (transport.sessionId values)
StudentIds == 1..MaxStudents
NoId == 0                      \* a request without ?sessionId=

Programs == {"app_min", "app_full", "app_echo", "mcp_stdio"}
SsePrograms == {"app_min", "app_full", "app_echo"}

\* ------------------------------------------------------------- tool names
ToolName ==
  << "get_all_students", "get_student_by_id", "get_student_grades",
     "get_student_attendance", "get_student_payments", "get_students_by_class",
     "search_students", "get_student_average", "add_student", "update_student",
     "delete_student", "custom_query" >>

ToolNameEcho == << "echo", "add" >> \o ToolName

Range(s) == { s[i] : i \in DOMAIN s }

\* names a client may send: every declared name and one that is declared nowhere
Names == Range(ToolNameEcho) \cup {"no_such_tool"}

\* ------------------------------------------------------- argument payloads
Undefined == [type |-> "undefined", v |-> 0]
Num(n) == [type |-> "number", v |-> n]
Str(n) == [type |-> "string", v |-> n]     \* n indexes Strings
Bool(b) == [type |-> "boolean", v |-> b]   \* 1 = true, 0 = false

\* the string values the clients of the model send
Strings == << "a", "SELECT * FROM ogrenciler", "DROP TABLE ogrenciler", " select 1" >>

\* the characters of each of Strings, the long ones cut after their first words
Chars ==
  << << "a" >>,
     << "S", "E", "L", "E", "C", "T", " ", "*" >>,
     << "D", "R", "O", "P", " ", "T" >>,
     << " ", "s", "e", "l", "e", "c", "t", " ", "1" >> >>

\* tc_no stands for the required string fields of add_student
Fields == {"id", "sinif_id", "search", "query", "aktif", "tc_no"}

NoFields == [f \in Fields |-> Undefined]

With(a, f, val) == [a EXCEPT ![f] = val]

\* the argument objects the clients of the model send to a tool: every one leaves
\* out, or sets rightly or wrongly, the fields that tool reads
ArgsFor(name) ==
  CASE name \in {"get_student_by_id", "get_student_grades", "get_student_attendance",
                 "get_student_payments", "get_student_average", "delete_student"} ->
         { NoFields, With(NoFields, "id", Num(1)), With(NoFields, "id", Num(2)),
           With(NoFields, "id", Str(1)) }
    [] name = "update_student" ->
         { NoFields, With(NoFields, "id", Num(1)), With(NoFields, "id", Num(2)),
           With(With(NoFields, "id", Num(1)), "aktif", Bool(1)),
           With(With(NoFields, "id", Num(1)), "aktif", Bool(0)) }
    [] name = "get_students_by_class" ->
         { NoFields, With(NoFields, "sinif_id", Num(1)), With(NoFields, "sinif_id", Str(1)) }
    [] name = "search_students" ->
         { NoFields, With(NoFields, "search", Str(1)), With(NoFields, "search", Num(1)) }
    [] name = "custom_query" ->
         { NoFields, With(NoFields, "query", Str(2)), With(NoFields, "query", Str(3)),
           With(NoFields, "query", Str(4)), With(NoFields, "query", Num(1)) }
    [] name = "add_student" -> { NoFields, With(NoFields, "tc_no", Str(1)) }
    [] OTHER -> { NoFields, With(NoFields, "id", Num(1)) }

\* request.params of a tools/call: hasArgs is FALSE when "arguments" is absent
Calls ==
  { c \in [name : Names, hasArgs : BOOLEAN, args : UNION { ArgsFor(n) : n \in Names }] :
      IF c.hasArgs THEN c.args \in ArgsFor(c.name) ELSE c.args = NoFields }

\* the tools/call messages posted to sessions
SessionCalls ==
  { [name |-> "get_all_students", hasArgs |-> TRUE, args |-> NoFields],
    [name |-> "get_student_by_id", hasArgs |-> TRUE, args |-> With(NoFields, "id", Num(2))],
    [name |-> "no_such_tool", hasArgs |-> FALSE, args |-> NoFields] }

VARIABLES
  program,     \* which of the four programs is running
  transports,  \* the Map sessionId -> transport (a transport is named by its request)
  pc,          \* position of each GET /sse handler
  reqQuery,    \* per GET /sse request: whether it arrived, and its ?sessionId=
  conn,        \* per GET /sse request: its transport's sessionId and stream state
  minted,      \* number of session ids minted so far
  cleanups,    \* per GET /sse request: calls of its cleanup hook
  ogrenciler,  \* Data Store: state of each student row
  restUp,      \* mcp_stdio: the REST backend process is running
  last,        \* the request handled last and what it was answered
  servers,     \* per GET /sse request: the request handlers of the Server made for it
  posts,       \* POST /message requests: arrived, body still being read, handled
  proc,        \* the process that owns the Data Store connection
  inflight     \* per session: the tools/call whose handler awaits the Data Store

vars ==
  << program, transports, pc, reqQuery, conn, minted, cleanups, ogrenciler, restUp, last,
     servers, posts, proc, inflight >>


\* ------------------------------------------------------------- Data Store
\* a row of ogrenciler: absent, or present with its aktif column 1, 0 or NULL
RowStates == {"absent", "aktif1", "aktif0", "aktifNull"}

\* what the Data Store answers to one statement: it runs it, or reports an error
StoreOutcomes == {"ok", "err"}

SqlError == "SQLITE_ERROR"
NotFound == "Ogrenci bulunamadi"
OnlySelect == "Sadece SELECT sorgulari desteklenir"

\* the row id a bound parameter selects in WHERE o.id = ? (0: no row)
RowOf(val) == IF val.type = "number" /\ val.v \in StudentIds THEN val.v ELSE 0

HasRow(tbl, val) == RowOf(val) # 0 /\ tbl[RowOf(val)] # "absent"

\* String.prototype.trim: the text without its leading and trailing blanks
RECURSIVE TrimStart(_)
TrimStart(t) == IF t # << >> /\ Head(t) = " " THEN TrimStart(Tail(t)) ELSE t

RECURSIVE TrimEnd(_)
TrimEnd(t) ==
  IF t # << >> /\ t[Len(t)] = " " THEN TrimEnd(SubSeq(t, 1, Len(t) - 1)) ELSE t

Trim(t) == TrimEnd(TrimStart(t))

\* String.prototype.toUpperCase on the letters of the model
UpperChar(ch) ==
  CASE ch = "s" -> "S" [] ch = "e" -> "E" [] ch = "l" -> "L" [] ch = "c" -> "C"
    [] ch = "t" -> "T" [] ch = "a" -> "A" [] OTHER -> ch

ToUpperCase(t) == [i \in DOMAIN t |-> UpperChar(t[i])]

\* String.prototype.startsWith
StartsWith(t, prefix) == Len(t) >= Len(prefix) /\ SubSeq(t, 1, Len(prefix)) = prefix

\* a prefix check that lets every string through
StartsWithSelectAny(val) == val.type = "string"

\* query.trim().toUpperCase().startsWith('SELECT') on the strings of the model
StartsWithSelect(val) ==
  /\ val.type = "string"
  /\ StartsWith(ToUpperCase(Trim(Chars[val.v])), << "S", "E", "L", "E", "C", "T" >>)

\* ---------------------------------------------------------------- outcomes
\* what a case of the switch did: fault = it threw or its promise rejected,
\* handler = the tool's handler function (or HTTP request) was started,
\* db = statements issued to the Data Store, tbl = the table afterwards,
\* crash = the REST backend died of an uncaught exception
Throws(msg, tbl) ==
  [fault |-> TRUE, msg |-> msg, handler |-> FALSE, db |-> 0, tbl |-> tbl, crash |-> FALSE]

Rejects(msg, n, tbl) ==
  [fault |-> TRUE, msg |-> msg, handler |-> TRUE, db |-> n, tbl |-> tbl, crash |-> FALSE]

Resolves(msg, n, tbl) ==
  [fault |-> FALSE, msg |-> msg, handler |-> TRUE, db |-> n, tbl |-> tbl, crash |-> FALSE]

\* ---------------------------------------------- tool handlers of src/app.js
\* db.all(query, params, cb): getAllStudents, getStudentGrades, getStudentAttendance,
\* getStudentPayments, getStudentsByClass, searchStudents, getStudentAverage
dbAllHandler(o, tbl) ==
  IF o = "err" THEN Rejects(<< SqlError >>, 1, tbl)
  ELSE Resolves(<< "data", "rows" >>, 1, tbl)

getAllStudents(o, tbl) == dbAllHandler(o, tbl)

getStudentById(id, o, tbl) ==
  IF o = "err" THEN Rejects(<< SqlError >>, 1, tbl)
  ELSE IF ~HasRow(tbl, id) THEN Rejects(<< NotFound >>, 1, tbl)
  ELSE Resolves(<< "data", "row" >>, 1, tbl)

customQuery(query, o, tbl) ==
  IF ~StartsWithSelect(query) THEN Rejects(<< OnlySelect >>, 0, tbl)
  ELSE dbAllHandler(o, tbl)

\* Schema.parse(args) of a z.object with one required field f of primitive type t:
\* the ZodError's message lists the path and the code of the issue
ZodIssue(f, t, c) ==
  IF ~c.hasArgs THEN << "ZodError", "", "Required" >>
  ELSE IF c.args[f] = Undefined THEN << "ZodError", f, "Required" >>
  ELSE IF c.args[f].type # t THEN << "ZodError", f, "Expected", t >>
  ELSE << >>

\* const v = Schema.parse(args); return await handler(v.f)
Validated(f, t, c, out, tbl) ==
  IF ZodIssue(f, t, c) # << >> THEN Throws(ZodIssue(f, t, c), tbl) ELSE out

\* a default case that answers instead of throwing
UnknownToolSilent(name, tbl) == Resolves(<< "data" >>, 0, tbl)

UnknownTool(name, tbl) == Throws(<< "Unknown tool: ", name >>, tbl)

TypeErrorOf(f, tbl) == Throws(<< "Cannot read properties of undefined", f >>, tbl)

\* src/app.js 110-129: the switch of the first program
SwitchAppMin(c, o, tbl) ==
  CASE c.name = "get_all_students" -> getAllStudents(o, tbl)
    [] c.name = "get_student_by_id" ->
         IF ~c.hasArgs THEN TypeErrorOf("id", tbl)
         ELSE getStudentById(c.args["id"], o, tbl)
    [] OTHER -> UnknownTool(c.name, tbl)

\* src/app.js 667-716: the switch of the second program
SwitchAppFull(c, o, tbl) ==
  CASE c.name = "get_all_students" -> getAllStudents(o, tbl)
    [] c.name = "get_student_by_id" ->
         Validated("id", "number", c, getStudentById(c.args["id"], o, tbl), tbl)
    [] c.name \in {"get_student_grades", "get_student_attendance",
                   "get_student_payments", "get_student_average"} ->
         Validated("id", "number", c, dbAllHandler(o, tbl), tbl)
    [] c.name = "get_students_by_class" ->
         Validated("sinif_id", "number", c, dbAllHandler(o, tbl), tbl)
    [] c.name = "search_students" ->
         Validated("search", "string", c, dbAllHandler(o, tbl), tbl)
    [] c.name = "custom_query" ->
         Validated("query", "string", c, customQuery(c.args["query"], o, tbl), tbl)
    [] OTHER -> UnknownTool(c.name, tbl)

\* src/unnamed/part_000 160-196: EchoSchema and AddSchema are declared nowhere,
\* so evaluating them throws a ReferenceError inside the try block
SwitchAppEcho(c, o, tbl) ==
  CASE c.name = "echo" -> Throws(<< "EchoSchema is not defined" >>, tbl)
    [] c.name = "add" -> Throws(<< "AddSchema is not defined" >>, tbl)
    [] c.name = "get_all_students" -> getAllStudents(o, tbl)
    [] OTHER -> UnknownTool(c.name, tbl)

\* ------------------------------------- REST routes of src/unnamed/part_001
\* what a route did with a request: status 0 with crash = the callback threw an
\* uncaught exception and the process died before any response was written
Responds(status, n, tbl) == [status |-> status, db |-> n, tbl |-> tbl, crash |-> FALSE]

Crashes(n, tbl) == [status |-> 0, db |-> n, tbl |-> tbl, crash |-> TRUE]

\* the rows the listings select: WHERE o.aktif = 1 (all students, by class, search)
ActiveRows(tbl) == { i \in StudentIds : tbl[i] = "aktif1" }

\* GET routes answering { data: rows } from one db.all
RestList(o, tbl) == IF o = "err" THEN Responds(500, 1, tbl) ELSE Responds(200, 1, tbl)

\* GET /api/ogrenciler/:id
RestGetById(id, o, tbl) ==
  IF o = "err" THEN Responds(500, 1, tbl)
  ELSE IF ~HasRow(tbl, id) THEN Responds(404, 1, tbl)
  ELSE Responds(200, 1, tbl)

\* GET /api/ogrenciler/:id/ortalama: the callback computes genelOrtalama and then
\* reads genel_ortalama, which is declared nowhere
RestOrtalama(o, tbl) == IF o = "err" THEN Responds(500, 1, tbl) ELSE Crashes(1, tbl)

\* the row an INSERT creates: the lowest absent id
FreeRow(tbl) == CHOOSE i \in StudentIds : tbl[i] = "absent" /\ \A j \in 1..(i - 1) : tbl[j] # "absent"

\* POST /api/ogrenciler: the statement sets no aktif column, the table's default decides it
RestInsert(o, aktifDefault, tbl) ==
  IF o = "err" THEN Responds(500, 1, tbl)
  ELSE Responds(200, 1, [tbl EXCEPT ![FreeRow(tbl)] = aktifDefault])

\* the aktif column as bound from req.body.aktif
AktifOf(val) ==
  CASE val.type = "boolean" /\ val.v = 1 -> "aktif1"
    [] val.type = "boolean" /\ val.v = 0 -> "aktif0"
    [] OTHER -> "aktifNull"

\* an update route that leaves a column alone when the request has no value for it
RestUpdateKeepsAbsent(id, aktif, o, tbl) ==
  IF o = "err" THEN Responds(500, 1, tbl)
  ELSE IF HasRow(tbl, id) /\ aktif.type = "boolean"
    THEN Responds(200, 1, [tbl EXCEPT ![RowOf(id)] = AktifOf(aktif)])
  ELSE Responds(200, 1, tbl)

\* PUT /api/ogrenciler/:id: the statement sets every column, aktif among them, to
\* the value bound from req.body, NULL for a field the body does not have
RestUpdate(id, aktif, o, tbl) ==
  IF o = "err" THEN Responds(500, 1, tbl)
  ELSE IF HasRow(tbl, id) THEN Responds(200, 1, [tbl EXCEPT ![RowOf(id)] = AktifOf(aktif)])
  ELSE Responds(200, 1, tbl)

\* a delete route that removes the row
RestDeleteHard(id, o, tbl) ==
  IF o = "err" THEN Responds(500, 1, tbl)
  ELSE IF HasRow(tbl, id) THEN Responds(200, 1, [tbl EXCEPT ![RowOf(id)] = "absent"])
  ELSE Responds(200, 1, tbl)

\* DELETE /api/ogrenciler/:id: UPDATE ogrenciler SET aktif = 0 WHERE id = ?
RestDelete(id, o, tbl) ==
  IF o = "err" THEN Responds(500, 1, tbl)
  ELSE IF HasRow(tbl, id) THEN Responds(200, 1, [tbl EXCEPT ![RowOf(id)] = "aktif0"])
  ELSE Responds(200, 1, tbl)

\* POST /api/custom-query: query.trim() throws in the route for a non-string query,
\* which express answers with status 500
RestCustomQuery(query, o, tbl) ==
  IF query.type # "string" THEN Responds(500, 0, tbl)
  ELSE IF ~StartsWithSelect(query) THEN Responds(400, 0, tbl)
  ELSE RestList(o, tbl)

StatusText(status) ==
  CASE status = 400 -> "400" [] status = 404 -> "404" [] status = 500 -> "500" [] OTHER -> "200"

\* await axios.<method>(url): rejects unless the backend answers with a 2xx status;
\* r is what the route does with the request, tbl the table before the request,
\* which stays as it is when the backend is not there to receive the request
Axios(up, r, tbl) ==
  IF ~up THEN Rejects(<< "connect ECONNREFUSED" >>, 0, tbl)
  ELSE IF r.crash THEN [Rejects(<< "socket hang up" >>, r.db, r.tbl) EXCEPT !.crash = TRUE]
  ELSE IF r.status >= 400
    THEN Rejects(<< "Request failed with status code", StatusText(r.status) >>, r.db, r.tbl)
  ELSE Resolves(<< "data" >>, r.db, r.tbl)

\* src/mcp-server.js 216-370: the switch of the stdio server; every case but
\* get_all_students and add_student reads a property of args first
SwitchMcpStdio(c, o, aktifDefault, up, tbl) ==
  IF ~c.hasArgs /\ c.name \in Range(ToolName) \ {"get_all_students", "add_student"}
    THEN TypeErrorOf("args", tbl)
  ELSE
    CASE c.name = "get_all_students" -> Axios(up, RestList(o, tbl), tbl)
      [] c.name = "add_student" -> Axios(up, RestInsert(o, aktifDefault, tbl), tbl)
      [] c.name = "get_student_by_id" -> Axios(up, RestGetById(c.args["id"], o, tbl), tbl)
      [] c.name \in {"get_student_grades", "get_student_attendance", "get_student_payments",
                     "get_students_by_class", "search_students"} -> Axios(up, RestList(o, tbl), tbl)
      [] c.name = "get_student_average" -> Axios(up, RestOrtalama(o, tbl), tbl)
      [] c.name = "update_student" ->
           Axios(up, RestUpdate(c.args["id"], c.args["aktif"], o, tbl), tbl)
      [] c.name = "delete_student" -> Axios(up, RestDelete(c.args["id"], o, tbl), tbl)
      [] c.name = "custom_query" -> Axios(up, RestCustomQuery(c.args["query"], o, tbl), tbl)
      [] OTHER -> Throws(<< "Bilinmeyen arac: ", c.name >>, tbl)

\* the switch of program p
Switch(p, c, o, aktifDefault, up, tbl) ==
  CASE p = "app_min" -> SwitchAppMin(c, o, tbl)
    [] p = "app_full" -> SwitchAppFull(c, o, tbl)
    [] p = "app_echo" -> SwitchAppEcho(c, o, tbl)
    [] OTHER -> SwitchMcpStdio(c, o, aktifDefault, up, tbl)

ErrorPrefix(p) == IF p = "mcp_stdio" THEN "Hata: " ELSE "Error: "

\* a catch clause that leaves out isError: true
CatchClauseNoFlag(p, out) ==
  [returned |-> TRUE, isError |-> FALSE, blocks |-> 1, prefix |-> ErrorPrefix(p), msg |-> out.msg]

\* the catch clause of the CallToolRequestSchema handler
CatchClause(p, out) ==
  [returned |-> TRUE, isError |-> TRUE, blocks |-> 1, prefix |-> ErrorPrefix(p), msg |-> out.msg]

\* the CallToolRequestSchema handler: try { switch ... } catch (error) { ... }
CallTool(p, out) ==
  IF out.fault THEN CatchClause(p, out)
  ELSE [returned |-> TRUE, isError |-> FALSE, blocks |-> 1, prefix |-> "", msg |-> out.msg]

NoResult == [returned |-> FALSE, isError |-> FALSE, blocks |-> 0, prefix |-> "", msg |-> << >>]

NoCall == [name |-> "", hasArgs |-> FALSE, args |-> NoFields]

\* ------------------------------------------------------ session registry
\* Map.prototype.set / delete / get on the transports map
MapSet(m, k, val) == [x \in DOMAIN m \cup {k} |-> IF x = k THEN val ELSE m[x]]

MapDelete(m, k) == [x \in DOMAIN m \ {k} |-> m[x]]

MapHas(m, k) == k \in DOMAIN m

EmptyMap == [x \in {} |-> 0]

\* an id source that repeats the id it gave last
NewSessionIdStale(n) == IF n = 0 THEN 1 ELSE n

\* transport.sessionId of a new SSEServerTransport: a random UUID, i.e. a value
\* no earlier transport of the process has (n ids were minted before)
NewSessionId(n) == n + 1

NoTransport == [sessionId |-> NoId, stream |-> "none"]

NoRequest ==
  [kind |-> "none", sid |-> NoId, status |-> 0, server |-> 0, call |-> NoCall,
   res |-> NoResult, fault |-> << >>, handler |-> FALSE, db |-> 0, body |-> << >>,
   method |-> ""]

\* no Server object yet: no request handlers
NoServer == {}

\* the methods createMCPServer registers with server.setRequestHandler
RequestHandlers == {"tools/list", "tools/call", "prompts/list", "prompts/get"}

\* createMCPServer(): a new Server with its request handlers set
createMCPServer == RequestHandlers

\* no POST /message has arrived
NoPosts == [arrived |-> 0, reading |-> {}, handed |-> << >>]

\* no tools/call of the session is with its handler
NoFlight ==
  [state |-> "none", call |-> NoCall, store |-> "", tbl |-> << >>, up |-> TRUE,
   res |-> NoResult]

\* the process has not exited
Running == proc.state # "exited"

InitState ==
  /\ transports = EmptyMap
  /\ pc = [r \in Reqs |-> "idle"]
  /\ reqQuery = [r \in Reqs |-> [arrived |-> FALSE, sessionId |-> NoId]]
  /\ conn = [r \in Reqs |-> NoTransport]
  /\ minted = 0
  /\ cleanups = [r \in Reqs |-> 0]
  /\ ogrenciler = [i \in StudentIds |-> IF i = 1 THEN "aktif1" ELSE "absent"]
  /\ restUp = TRUE
  /\ last = NoRequest
  /\ servers = [r \in Reqs |-> NoServer]
  /\ posts = NoPosts
  /\ proc = [state |-> "running", closeCalls |-> 0, callbacks |-> 0, db |-> "open"]
  /\ inflight = [r \in Reqs |-> NoFlight]

\* one of the three programs that serve sessions over SSE has started
Init == program \in SsePrograms /\ InitState

\* GET /sse requests are numbered in their order of arrival
Arrives(r) == pc[r] = "idle" /\ \A q \in Reqs : q < r => pc[q] # "idle"

\* a connect handler that puts the transport of the first connection under every
\* new id
SseConnectSharesTransport(r) ==
  /\ Running
  /\ Arrives(r)
  /\ servers' = [servers EXCEPT ![r] = createMCPServer]
  /\ LET id == NewSessionId(minted) IN
       /\ conn' = [conn EXCEPT ![r] = [sessionId |-> id, stream |-> "started"]]
       /\ transports' = MapSet(transports, id, 1)
  /\ minted' = minted + 1
  /\ pc' = [pc EXCEPT ![r] = "connecting"]
  /\ reqQuery' = [reqQuery EXCEPT ![r] = [arrived |-> TRUE, sessionId |-> NoId]]
  /\ UNCHANGED << program, cleanups, ogrenciler, restUp, last, posts, proc, inflight >>

\* app.get("/sse") without sessionId, up to its first await: the transport is
\* constructed and put in the map, server.connect(transport) starts the stream
SseConnect(r) ==
  /\ Running
  /\ Arrives(r)
  /\ servers' = [servers EXCEPT ![r] = createMCPServer]
  /\ LET id == NewSessionId(minted) IN
       /\ conn' = [conn EXCEPT ![r] = [sessionId |-> id, stream |-> "started"]]
       /\ transports' = MapSet(transports, id, r)
  /\ minted' = minted + 1
  /\ pc' = [pc EXCEPT ![r] = "connecting"]
  /\ reqQuery' = [reqQuery EXCEPT ![r] = [arrived |-> TRUE, sessionId |-> NoId]]
  /\ UNCHANGED << program, cleanups, ogrenciler, restUp, last, posts, proc, inflight >>

\* the continuation after await server.connect(transport): server.onclose is set
SseConnected(r) ==
  /\ Running
  /\ pc[r] = "connecting"
  /\ pc' = [pc EXCEPT ![r] = "open"]
  /\ UNCHANGED << program, transports, reqQuery, conn, minted, cleanups, ogrenciler, restUp, last, servers, posts, proc, inflight >>

\* a close handler that empties the whole map
OnCloseClearsAll(r) ==
  /\ transports' = EmptyMap
  /\ cleanups' = [cleanups EXCEPT ![r] = @ + 1]

\* server.onclose of request r: transports.delete(transport.sessionId); await cleanup()
OnClose(r) ==
  /\ transports' = MapDelete(transports, conn[r].sessionId)
  /\ cleanups' = [cleanups EXCEPT ![r] = @ + 1]

\* the response stream of request r closes (the client disconnects): the transport
\* calls the server's onclose, which runs server.onclose if it is set by then
TransportClose(r) ==
  /\ Running
  /\ conn[r].stream = "started"
  /\ conn' = [conn EXCEPT ![r].stream = "closed"]
  /\ IF pc[r] = "open" THEN OnClose(r) ELSE UNCHANGED << transports, cleanups >>
  /\ UNCHANGED << program, pc, reqQuery, minted, ogrenciler, restUp, last, servers, posts, proc, inflight >>

\* a reconnect branch that re-attaches: it binds the given id to a new transport
SseReconnectRebinds(r, sid) ==
  /\ Running
  /\ Arrives(r)
  /\ sid # NoId
  /\ servers' = [servers EXCEPT ![r] = createMCPServer]
  /\ conn' = [conn EXCEPT ![r] = [sessionId |-> sid, stream |-> "started"]]
  /\ transports' = MapSet(transports, sid, r)
  /\ pc' = [pc EXCEPT ![r] = "connecting"]
  /\ reqQuery' = [reqQuery EXCEPT ![r] = [arrived |-> TRUE, sessionId |-> sid]]
  /\ UNCHANGED << program, minted, cleanups, ogrenciler, restUp, last, posts, proc, inflight >>

\* app.get("/sse") with a sessionId: the transport is looked up and logged, the
\* handler ends without writing a response
SseReconnect(r, sid) ==
  /\ Running
  /\ Arrives(r)
  /\ sid # NoId
  /\ servers' = [servers EXCEPT ![r] = createMCPServer]
  /\ pc' = [pc EXCEPT ![r] = "stalled"]
  /\ reqQuery' = [reqQuery EXCEPT ![r] = [arrived |-> TRUE, sessionId |-> sid]]
  /\ UNCHANGED << program, transports, conn, minted, cleanups, ogrenciler, restUp, last, posts, proc, inflight >>

CanInsert(tbl) == \E i \in StudentIds : tbl[i] = "absent"

\* the CallToolRequestSchema handler of the running program answers the tools/call
\* request c that reached the server of request `server` (0: the stdio server)
HandleCall(kind, sid, status, server, c, o, aktifDefault) ==
  /\ (c.name = "add_student" /\ o = "ok") => CanInsert(ogrenciler)
  /\ LET out == Switch(program, c, o, aktifDefault, restUp, ogrenciler) IN
       /\ last' = [kind |-> kind, sid |-> sid, status |-> status, server |-> server,
                   call |-> c, res |-> CallTool(program, out),
                   fault |-> IF out.fault THEN out.msg ELSE << >>,
                   handler |-> out.handler, db |-> out.db, body |-> << >>,
                   method |-> "tools/call"]
       /\ ogrenciler' = out.tbl
       /\ restUp' = (restUp /\ ~out.crash)

\* a message endpoint that forwards without looking the session up
PostMessageNoLookup(sid, c, o) ==
  /\ Running
  /\ HandleCall("post", sid, 202, 0, c, o, "aktif1")
  /\ UNCHANGED << program, transports, pc, reqQuery, conn, minted, cleanups, servers, proc, inflight >>

\* app.post("/message"): 404 without a transport for the id; otherwise
\* transport.handlePostMessage, which hands the message to the server connected
\* to that transport (status 202), or answers 500 when its stream is not established
PostMessage(sid, c, o) ==
  /\ Running
  /\ IF ~MapHas(transports, sid)
       THEN /\ last' = [NoRequest EXCEPT !.kind = "post", !.sid = sid, !.status = 404]
            /\ UNCHANGED << ogrenciler, restUp >>
     ELSE IF conn[transports[sid]].stream # "started"
       THEN /\ last' = [NoRequest EXCEPT !.kind = "post", !.sid = sid, !.status = 500]
            /\ UNCHANGED << ogrenciler, restUp >>
     ELSE HandleCall("post", sid, 202, transports[sid], c, o, "aktif1")
  /\ UNCHANGED << program, transports, pc, reqQuery, conn, minted, cleanups, servers, proc, inflight >>

\* the name the service gives itself
ServiceName == "student-api-mcp"

\* a health probe that reports busy while a GET /sse handler is connecting
GetHealthBusy ==
  /\ Running
  /\ last' = [NoRequest EXCEPT !.kind = "health", !.status = 200,
                               !.body = IF \E r \in Reqs : pc[r] = "connecting"
                                          THEN << "status", "busy", "name", ServiceName >>
                                          ELSE << "status", "ok", "name", ServiceName >>]
  /\ UNCHANGED << program, transports, pc, reqQuery, conn, minted, cleanups, ogrenciler,
                  restUp, servers, posts, proc, inflight >>

\* app.get('/'): res.json({ status: 'ok', name: 'student-api-mcp' })
GetHealth ==
  /\ Running
  /\ last' = [NoRequest EXCEPT !.kind = "health", !.status = 200,
                               !.body = << "status", "ok", "name", ServiceName >>]
  /\ UNCHANGED << program, transports, pc, reqQuery, conn, minted, cleanups, ogrenciler,
                  restUp, servers, posts, proc, inflight >>

\* app.post('/register'): res.json({ result: 'ok' })
PostRegister ==
  /\ Running
  /\ last' = [NoRequest EXCEPT !.kind = "register", !.status = 200,
                               !.body = << "result", "ok" >>]
  /\ UNCHANGED << program, transports, pc, reqQuery, conn, minted, cleanups, ogrenciler,
                  restUp, servers, posts, proc, inflight >>

\* app.get('/.well-known/oauth-authorization-server'): res.json({})
GetDiscovery ==
  /\ Running
  /\ last' = [NoRequest EXCEPT !.kind = "discovery", !.status = 200]
  /\ UNCHANGED << program, transports, pc, reqQuery, conn, minted, cleanups, ogrenciler,
                  restUp, servers, posts, proc, inflight >>

Next ==
  \/ \E r \in Reqs : SseConnect(r)
  \/ \E r \in Reqs : SseConnected(r)
  \/ \E r \in Reqs : TransportClose(r)
  \/ \E r \in Reqs, sid \in Ids : SseReconnect(r, sid)
  \/ \E sid \in Ids \cup {NoId}, c \in SessionCalls, o \in StoreOutcomes :
        PostMessage(sid, c, o) /\ UNCHANGED posts
  \/ GetHealth
  \/ PostRegister
  \/ GetDiscovery

Spec == Init /\ [][Next]_vars

\* ------------------------------------------------- order of posted messages
\* a POST /message?sessionId=sid reaches the server: the express.json() middleware
\* starts to read its body, and calls the route handler when the body is complete
PostArrives(sid) ==
  /\ Running
  /\ posts.arrived < MaxPosts
  /\ posts' = [posts EXCEPT !.arrived = @ + 1,
                            !.reading = @ \cup {[n |-> posts.arrived + 1, sid |-> sid]}]
  /\ UNCHANGED << program, transports, pc, reqQuery, conn, minted, cleanups, ogrenciler,
                  restUp, last, servers, proc, inflight >>

\* the body of the posted request m is complete: app.post("/message") runs for it;
\* posts.handed lists the requests whose message a server was given, in that order
PostBodyRead(m, c, o) ==
  /\ m \in posts.reading
  /\ PostMessage(m.sid, c, o)
  /\ posts' = [posts EXCEPT !.reading = @ \ {m},
                            !.handed = IF last'.status = 202
                                         THEN Append(@, [n |-> m.n, server |-> last'.server])
                                         ELSE @]

NextOrder ==
  \/ \E r \in Reqs : SseConnect(r)
  \/ \E r \in Reqs : SseConnected(r)
  \/ \E r \in Reqs : TransportClose(r)
  \/ \E sid \in Ids : PostArrives(sid)
  \/ \E n \in 1..MaxPosts, sid \in Ids, c \in SessionCalls, o \in StoreOutcomes :
        PostBodyRead([n |-> n, sid |-> sid], c, o)

SpecOrder == Init /\ [][NextOrder]_vars

\* ------------------------------------------------------------ tool registry
\* the names of the tools array of the ListToolsRequestSchema handler
Tools(p) ==
  CASE p = "app_min" -> << "get_all_students", "get_student_by_id" >>
    [] p = "app_full" ->
         << "get_all_students", "get_student_by_id", "get_student_grades",
            "get_student_attendance", "get_student_payments", "get_students_by_class",
            "search_students", "get_student_average", "custom_query" >>
    [] p = "app_echo" -> << "echo", "add", "get_all_students", "get_student_by_id" >>
    [] OTHER -> ToolName

Registered(p) == Range(Tools(p))

\* the required fields of the modelled inputSchema of a tool of the array, with the
\* primitive type of each (integer is a number); the schemas of echo and add
\* are not in the sources
InputSchema(p, name) ==
  CASE name \in {"get_student_by_id", "get_student_grades", "get_student_attendance",
                 "get_student_payments", "get_student_average", "delete_student",
                 "update_student"} -> { << "id", "number" >> }
    [] name = "get_students_by_class" -> { << "sinif_id", "number" >> }
    [] name = "search_students" -> { << "search", "string" >> }
    [] name = "custom_query" -> { << "query", "string" >> }
    [] name = "add_student" -> { << "tc_no", "string" >> }
    [] OTHER -> {}

\* the names the switch of the CallToolRequestSchema handler has a case for
Cases(p) ==
  CASE p = "app_min" -> {"get_all_students", "get_student_by_id"}
    [] p = "app_full" -> Range(ToolName) \ {"add_student", "update_student", "delete_student"}
    [] p = "app_echo" -> {"echo", "add", "get_all_students"}
    [] OTHER -> Range(ToolName)

\* the ToolName table of the program (mcp-server.js has no table: its tools array
\* and its switch name the tools in this same order)
ToolNameOf(p) == IF p = "app_echo" THEN ToolNameEcho ELSE ToolName

\* the ListToolsRequestSchema handler: it builds the tools array and returns it;
\* in part_000 the array literal reads EchoSchema, which is declared nowhere
ListTools(p) ==
  IF p = "app_echo"
    THEN [fault |-> TRUE, msg |-> << "EchoSchema is not defined" >>, tools |-> << >>]
    ELSE [fault |-> FALSE, msg |-> << >>, tools |-> Tools(p)]

\* ------------------------------------------------------ tools/call dispatch
\* any of the four programs has started
InitDispatch == program \in Programs /\ InitState

AktifDefaults(c) == IF c.name = "add_student" THEN {"aktif1", "aktifNull"} ELSE {"aktif1"}

\* a tools/call request reaches the CallToolRequestSchema handler
ToolsCall(c, o, aktifDefault) ==
  /\ HandleCall("call", NoId, 0, 0, c, o, aktifDefault)
  /\ UNCHANGED << program, transports, pc, reqQuery, conn, minted, cleanups, servers, posts, proc, inflight >>

\* a tools/list that answers with the tools only on the first server made
HandleListFirstServerOnly(kind, sid, status, server) ==
  LET out == IF server > 1 THEN [ListTools(program) EXCEPT !.tools = << >>]
                           ELSE ListTools(program) IN
    last' = [NoRequest EXCEPT !.kind = kind, !.sid = sid, !.status = status,
                              !.server = server, !.fault = out.msg, !.body = out.tools,
                              !.res = [NoResult EXCEPT !.returned = ~out.fault],
                              !.method = "tools/list"]

\* the ListToolsRequestSchema handler answers a tools/list request that reached the
\* server of request `server`; when the handler throws, the protocol layer answers
\* with an error response instead of a result
HandleList(kind, sid, status, server) ==
  LET out == ListTools(program) IN
    last' = [NoRequest EXCEPT !.kind = kind, !.sid = sid, !.status = status,
                              !.server = server, !.fault = out.msg, !.body = out.tools,
                              !.res = [NoResult EXCEPT !.returned = ~out.fault],
                              !.method = "tools/list"]

\* a tools/list request reaches the ListToolsRequestSchema handler
ToolsList ==
  /\ HandleList("list", NoId, 0, 0)
  /\ UNCHANGED << program, transports, pc, reqQuery, conn, minted, cleanups, ogrenciler,
                  restUp, servers, posts, proc, inflight >>

NextDispatch ==
  \/ \E c \in Calls, o \in StoreOutcomes : \E d \in AktifDefaults(c) : ToolsCall(c, o, d)
  \/ ToolsList

SpecDispatch == InitDispatch /\ [][NextDispatch]_vars

\* ------------------------------------------------------------------ shutdown
\* an interrupt handler that exits without waiting for the close
SigintExitsAtOnce ==
  /\ Running
  /\ program = "mcp_stdio" => restUp
  /\ proc.closeCalls < MaxSigint
  /\ proc' = [proc EXCEPT !.state = "exited", !.closeCalls = @ + 1]
  /\ restUp' = IF program = "mcp_stdio" THEN FALSE ELSE restUp
  /\ UNCHANGED << program, transports, pc, reqQuery, conn, minted, cleanups, ogrenciler,
                  last, servers, posts, inflight >>

\* process.on('SIGINT'): db.close(callback) is called and the handler returns; the
\* process keeps serving until the callback runs
Sigint ==
  /\ Running
  /\ program = "mcp_stdio" => restUp
  /\ proc.closeCalls < MaxSigint
  /\ proc' = [proc EXCEPT !.state = "closing", !.closeCalls = @ + 1]
  /\ restUp' = restUp
  /\ UNCHANGED << program, transports, pc, reqQuery, conn, minted, cleanups, ogrenciler,
                  last, servers, posts, inflight >>

\* the callback of db.close: the close succeeded or failed (err is only logged),
\* then process.exit(0); nothing else is closed or removed before the exit
DbCloseCallback(o) ==
  /\ proc.state = "closing"
  /\ proc' = [proc EXCEPT !.state = "exited", !.callbacks = @ + 1,
                          !.db = IF o = "ok" THEN "closed" ELSE @]
  /\ restUp' = IF program = "mcp_stdio" THEN FALSE ELSE restUp
  /\ UNCHANGED << program, transports, pc, reqQuery, conn, minted, cleanups, ogrenciler,
                  last, servers, posts, inflight >>

\* the programs with sessions being opened and dropped, and mcp-server.js calling
\* the REST backend, while the process that owns the Data Store is interrupted
NextShutdown ==
  \/ program \in SsePrograms /\ \E r \in Reqs : SseConnect(r)
  \/ \E r \in Reqs : SseConnected(r)
  \/ \E r \in Reqs : TransportClose(r)
  \/ program = "mcp_stdio" /\ \E c \in SessionCalls, o \in StoreOutcomes : ToolsCall(c, o, "aktif1")
  \/ Sigint
  \/ \E o \in StoreOutcomes : DbCloseCallback(o)

SpecShutdown == InitDispatch /\ [][NextShutdown]_vars

\* -------------------------------------------- the registry over the sessions
\* app.post("/message") for a posted tools/list message: the same lookup, then the
\* ListToolsRequestSchema handler of the server connected to the transport
PostToolsList(sid) ==
  /\ Running
  /\ IF ~MapHas(transports, sid)
       THEN last' = [NoRequest EXCEPT !.kind = "post", !.sid = sid, !.status = 404]
     ELSE IF conn[transports[sid]].stream # "started"
       THEN last' = [NoRequest EXCEPT !.kind = "post", !.sid = sid, !.status = 500]
     ELSE HandleList("post", sid, 202, transports[sid])
  /\ UNCHANGED << program, transports, pc, reqQuery, conn, minted, cleanups, ogrenciler,
                  restUp, servers, posts, proc, inflight >>

\* every program serves tools/list and tools/call: the SSE programs on their
\* sessions, mcp-server.js on its one stdio connection
NextRegistry ==
  \/ program \in SsePrograms /\ \E r \in Reqs : SseConnect(r)
  \/ \E r \in Reqs : SseConnected(r)
  \/ \E r \in Reqs : TransportClose(r)
  \/ program \in SsePrograms /\ \E sid \in Ids, c \in SessionCalls, o \in StoreOutcomes :
        PostMessage(sid, c, o) /\ UNCHANGED posts
  \/ program \in SsePrograms /\ \E sid \in Ids : PostToolsList(sid)
  \/ program = "mcp_stdio" /\ \E c \in SessionCalls, o \in StoreOutcomes : ToolsCall(c, o, "aktif1")
  \/ program = "mcp_stdio" /\ ToolsList

SpecRegistry == InitDispatch /\ [][NextRegistry]_vars

\* the fields of call c that violate the input schema: missing, or of another type
InvalidFields(p, c) ==
  { ft[1] : ft \in { x \in InputSchema(p, c.name) :
                       ~c.hasArgs \/ c.args[x[1]] = Undefined \/ c.args[x[1]].type # x[2] } }

Mentions(msg, word) == \E i \in DOMAIN msg : msg[i] = word

IsCall == last.kind = "call"

\* ------------------------------------------------- calls in flight on sessions
\* the tools/call messages posted while other calls are with their handlers
FlightCalls ==
  { [name |-> "get_all_students", hasArgs |-> TRUE, args |-> NoFields],
    [name |-> "get_student_by_id", hasArgs |-> TRUE, args |-> With(NoFields, "id", Num(1))],
    [name |-> "delete_student", hasArgs |-> TRUE, args |-> With(NoFields, "id", Num(1))],
    [name |-> "no_such_tool", hasArgs |-> FALSE, args |-> NoFields] }

\* app.post("/message") for the id of an open session: handlePostMessage answers
\* 202 and hands the tools/call to the server of the transport, whose
\* CallToolRequestSchema handler starts and awaits the Data Store
CallPosted(sid, c) ==
  /\ Running
  /\ MapHas(transports, sid)
  /\ conn[transports[sid]].stream = "started"
  /\ inflight[transports[sid]].state # "waiting"
  /\ inflight' = [inflight EXCEPT ![transports[sid]] =
                                  [NoFlight EXCEPT !.state = "waiting", !.call = c]]
  /\ last' = [NoRequest EXCEPT !.kind = "post", !.sid = sid, !.status = 202,
                               !.server = transports[sid], !.call = c,
                               !.method = "tools/call"]
  /\ UNCHANGED << program, transports, pc, reqQuery, conn, minted, cleanups, ogrenciler,
                  restUp, servers, posts, proc >>

\* a handler that answers each session from the rows of that session's number only
StoreAnswersOwnRows(r, o) ==
  /\ Running
  /\ inflight[r].state = "waiting"
  /\ LET out == Switch(program, inflight[r].call, o, "aktif1", restUp,
                       [i \in StudentIds |-> IF i = r THEN ogrenciler[i] ELSE "absent"]) IN
       /\ last' = [kind |-> "answer", sid |-> conn[r].sessionId, status |-> 202,
                   server |-> r, call |-> inflight[r].call, res |-> CallTool(program, out),
                   fault |-> IF out.fault THEN out.msg ELSE << >>,
                   handler |-> out.handler, db |-> out.db, body |-> << >>,
                   method |-> "tools/call"]
       /\ restUp' = (restUp /\ ~out.crash)
  /\ inflight' = [inflight EXCEPT ![r] =
                    [state |-> "answered", call |-> @.call, store |-> o, tbl |-> ogrenciler,
                     up |-> restUp, res |-> last'.res]]
  /\ UNCHANGED << program, transports, pc, reqQuery, conn, minted, cleanups, ogrenciler,
                  servers, posts, proc >>

\* the Data Store calls back for the call in flight on the session of request r:
\* the handler's promise settles and the handler returns its result, computed
\* from the contents the store has at that time
StoreAnswers(r, o) ==
  /\ Running
  /\ inflight[r].state = "waiting"
  /\ HandleCall("answer", conn[r].sessionId, 202, r, inflight[r].call, o, "aktif1")
  /\ inflight' = [inflight EXCEPT ![r] =
                    [state |-> "answered", call |-> @.call, store |-> o, tbl |-> ogrenciler,
                     up |-> restUp, res |-> last'.res]]
  /\ UNCHANGED << program, transports, pc, reqQuery, conn, minted, cleanups, servers,
                  posts, proc >>

\* sessions open and stay open while calls are posted to them and answered
NextSessions ==
  \/ \E r \in Reqs : SseConnect(r)
  \/ \E sid \in Ids, c \in FlightCalls : CallPosted(sid, c)
  \/ \E r \in Reqs, o \in StoreOutcomes : StoreAnswers(r, o)

SpecSessions == Init /\ [][NextSessions]_vars

\* ------------------------------------------------------------------ claims
\* C1: for every tool name that is not in the registry, a tools/call returns a
\* result with isError = true and one text block naming the unknown tool; the
\* handler always returns a result object (no exception leaves it).
C1_UnknownToolIsErrorResult ==
  (IsCall /\ last.call.name \notin Registered(program)) =>
     /\ last.res.returned
     /\ last.res.isError
     /\ last.res.blocks = 1
     /\ Mentions(last.res.msg, last.call.name)
     /\ ~last.handler

C1_Witness ==
  /\ IsCall
  /\ last.call.name = "no_such_tool"
  /\ last.res.isError
  /\ program = "mcp_stdio"

\* C2 (as claimed): for every registered tool, a call whose arguments violate the
\* declared input shape returns isError = true with a message naming an invalid
\* field, the handler is not invoked and no Data Store statement is issued.
C2_InvalidArgsNeverReachHandler ==
  (IsCall /\ last.call.name \in Registered(program) /\ InvalidFields(program, last.call) # {}) =>
     /\ last.res.isError
     /\ \E f \in InvalidFields(program, last.call) : Mentions(last.res.msg, f)
     /\ ~last.handler
     /\ last.db = 0

\* C3: whenever a tool handler faults (store error, absent row, failed request),
\* the call returns a result with isError = true whose text is the fault's
\* message; nothing propagates, and the server can answer a later call.
C3_HandlerFaultIsErrorResult ==
  (IsCall /\ last.handler /\ last.fault # << >>) =>
     /\ last.res.returned
     /\ last.res.isError
     /\ last.res.blocks = 1
     /\ last.res.msg = last.fault
     /\ ENABLED NextDispatch

C3_Witness ==
  /\ IsCall
  /\ last.handler
  /\ last.fault = << NotFound >>
  /\ last.res.isError

\* ----------------------------------------------------------- session claims
Started(r) == conn[r].stream = "started"

Closed(r) == conn[r].stream = "closed"

Registry == DOMAIN transports

\* the ids of the transports constructed so far, open or closed
MintedIds == { conn[r].sessionId : r \in { q \in Reqs : conn[q].stream # "none" } }

\* C4 (as claimed): every session id in the registry is bound to a transport that
\* is live and writable (started, not closed), and a message is handed to a
\* server only while its transport is live.
C4_RegisteredTransportIsLive ==
  [][/\ \A id \in DOMAIN transports' : conn'[transports'[id]].stream = "started"
     /\ (last' # last /\ last'.kind = "post" /\ last'.server # 0) =>
          conn[last'.server].stream = "started"]_vars

\* C5 (as claimed): once a session's transport has closed, a lookup of its id in
\* the registry returns not-found, in that state and in every later one.
C5_ClosedSessionIsNotFound ==
  \A r \in Reqs : Closed(r) => ~MapHas(transports, conn[r].sessionId)

\* C6 (as claimed): on the transition of a session to Closed its cleanup hook has
\* run exactly once and its registry entry is removed.
C6_CloseRunsCleanupOnce ==
  [][\A r \in Reqs :
       (Started(r) /\ conn'[r].stream = "closed") =>
          /\ cleanups'[r] = 1
          /\ ~MapHas(transports', conn[r].sessionId)]_vars

\* C7: a POST /message whose sessionId is not in the registry (or is missing) is
\* answered 404 and changes nothing: no server or tool handler is invoked, no
\* statement issued, the registry and the sessions stay as they are, no id is minted.
C7_UnknownSessionIs404 ==
  [][(last' # last /\ last'.kind = "post" /\ ~MapHas(transports, last'.sid)) =>
        /\ last'.status = 404
        /\ last'.server = 0
        /\ ~last'.res.returned
        /\ ~last'.handler
        /\ last'.db = 0
        /\ UNCHANGED << transports, pc, reqQuery, conn, minted, cleanups, ogrenciler >>]_vars

C7_Witness ==
  /\ last.kind = "post"
  /\ last.status = 404
  /\ last.sid # NoId
  /\ Registry # {}
  /\ ~MapHas(transports, last.sid)

\* C8: no two open sessions share a session id, and the registry holds for each
\* open session exactly its own transport: an entry is never taken over by, or
\* lost to, another session.
C8_OpenSessionIdsAreUnique ==
  /\ \A r, q \in Reqs : (r # q /\ Started(r) /\ Started(q)) => conn[r].sessionId # conn[q].sessionId
  /\ \A r \in Reqs : Started(r) =>
       /\ MapHas(transports, conn[r].sessionId)
       /\ transports[conn[r].sessionId] = r
  /\ \A id \in Registry : conn[transports[id]].sessionId = id

C8_Witness == \E r, q \in Reqs : r # q /\ Started(r) /\ Started(q) /\ pc[r] = "connecting" /\ pc[q] = "connecting"

\* C9: a GET /sse without sessionId mints an id that no earlier transport of the
\* process had (open or closed), and that id is in the registry, bound to the
\* new transport, once the stream is open.
C9_MintedIdIsFresh ==
  [][\A r \in Reqs :
       (~reqQuery[r].arrived /\ reqQuery'[r].arrived /\ reqQuery'[r].sessionId = NoId) =>
          /\ conn'[r].stream = "started"
          /\ conn'[r].sessionId \notin MintedIds
          /\ MapHas(transports', conn'[r].sessionId)
          /\ transports'[conn'[r].sessionId] = r]_vars

C9_Witness == \E r, q \in Reqs : r < q /\ Closed(r) /\ ~MapHas(transports, conn[r].sessionId) /\ Started(q)

\* C10: a GET /sse that carries a sessionId creates no session: no id is minted,
\* no transport constructed, and the registry and every transport stay unchanged.
C10_ReconnectCreatesNothing ==
  [][\A r \in Reqs :
       (~reqQuery[r].arrived /\ reqQuery'[r].arrived /\ reqQuery'[r].sessionId # NoId) =>
          UNCHANGED << transports, conn, minted, cleanups >>]_vars

C10_Witness ==
  \E r \in Reqs :
    /\ reqQuery[r].arrived
    /\ MapHas(transports, reqQuery[r].sessionId)
    /\ conn[r] = NoTransport

\* the GET /sse request r has been answered or has become a session: a stream
\* was started for it; the handler has no other place that writes to res
Resolved(r) == pc[r] \in {"connecting", "open"}

\* C11 (as claimed): every GET /sse that carries a sessionId is resolved, i.e.
\* rejected with a response or treated as a fresh session; its handler never
\* ends leaving the request without a response.
C11_ReconnectIsResolved ==
  \A r \in Reqs : (reqQuery[r].arrived /\ reqQuery[r].sessionId # NoId) => Resolved(r)

\* C12 (as claimed): within one session the posted messages are handed to the
\* session's server in arrival order: of two POST /message requests of the same
\* session, the one that arrived first is handed over first.
C12_SessionMessagesInArrivalOrder ==
  \A i, j \in DOMAIN posts.handed :
    (i < j /\ posts.handed[i].server = posts.handed[j].server) =>
       posts.handed[i].n < posts.handed[j].n

\* C13: a connection drop on one session tears down only that session: when the
\* close handler of session r runs it removes exactly r's registry entry, and the
\* entry, transport, server and handler position of every other session stay as
\* they are (also when r's stream closes before its close handler is set).
C13_CloseTearsDownOnlyItsSession ==
  [][\A r \in Reqs :
       (Started(r) /\ conn'[r].stream = "closed") =>
          /\ (cleanups'[r] # cleanups[r]) =>
                /\ MapHas(transports, conn[r].sessionId)
                /\ transports' = MapDelete(transports, conn[r].sessionId)
          /\ \A id \in Registry \ {conn[r].sessionId} :
                MapHas(transports', id) /\ transports'[id] = transports[id]
          /\ \A q \in Reqs \ {r} :
                /\ conn'[q] = conn[q]
                /\ servers'[q] = servers[q]
                /\ pc'[q] = pc[q]
                /\ cleanups'[q] = cleanups[q]]_vars

C13_Witness ==
  \E r, q \in Reqs :
    /\ r # q
    /\ Closed(r)
    /\ cleanups[r] = 1
    /\ ~MapHas(transports, conn[r].sessionId)
    /\ Started(q)
    /\ MapHas(transports, conn[q].sessionId)
    /\ transports[conn[q].sessionId] = q

\* ---------------------------------------------------------- registry claims
IsList == last.kind = "list"

HasCase(name) == name \in Cases(program)

\* C14 (as claimed): a tools/list request returns every registered tool name (every
\* name the dispatcher resolves) exactly once, in the order of the ToolName table.
C14_ListIsEveryToolInDeclarationOrder ==
  IsList =>
     /\ last.res.returned
     /\ last.body = SelectSeq(ToolNameOf(program), HasCase)

\* a tools/list or tools/call request that reached a handler has been answered
Answered(method) == last.method = method /\ last.status \in {0, 202}

\* the default case of the switch answered: the dispatcher did not resolve the name
DefaultCaseTaken ==
  /\ last.fault # << >>
  /\ last.fault[1] \in {"Unknown tool: ", "Bilinmeyen arac: "}

\* C15: the tool registry is fixed before the first request and never changes: in
\* every reachable state every server made for a session has the request handlers
\* createMCPServer gave it, every tools/list answers with the tools array of the
\* program (or its startup fault), and a tools/call is resolved exactly for the
\* names the program's switch has a case for, whatever sessions were opened,
\* called and closed before.
C15_RegistryIsFixed ==
  /\ \A r \in Reqs : servers[r] \in {NoServer, RequestHandlers}
  /\ Answered("tools/list") =>
        IF program = "app_echo"
          THEN ~last.res.returned /\ last.body = << >>
          ELSE last.res.returned /\ last.body = Tools(program)
  /\ Answered("tools/call") => (DefaultCaseTaken <=> last.call.name \notin Cases(program))

C15_Witness ==
  /\ Answered("tools/list")
  /\ last.server = 2
  /\ last.body = Tools(program)
  /\ Closed(1)
  /\ cleanups[1] = 1

\* ------------------------------------------------------- absent student claim
\* the call handled last failed at the store or on the way to it
StoreFailed ==
  \E w \in {SqlError, "500", "connect ECONNREFUSED", "socket hang up"} : Mentions(last.fault, w)

\* the call handled last asked for a student row the Data Store does not have
AskedAbsentStudent ==
  /\ IsCall
  /\ last.call.name = "get_student_by_id"
  /\ last.call.hasArgs
  /\ last.call.args["id"].type = "number"
  /\ ~HasRow(ogrenciler, last.call.args["id"])
  /\ ~StoreFailed

\* C16 (as claimed): get_student_by_id with an id for which the Data Store has no
\* row returns a result with isError = true whose text has a not-found indication
\* (the not-found message, or the 404 status of the backend); nothing is thrown.
C16_AbsentStudentIsNotFoundError ==
  AskedAbsentStudent =>
     /\ last.res.returned
     /\ last.res.isError
     /\ Mentions(last.res.msg, NotFound) \/ Mentions(last.res.msg, "404")

\* ----------------------------------------------------------- shutdown claims
Exited == proc.state = "exited"

\* C17: on an interrupt the process exits only after the close of the Data Store
\* connection has completed: it never is exited while db.close was not called, or
\* was called and has not called back.
C17_ExitOnlyAfterCloseCallback ==
  Exited =>
     /\ proc.closeCalls >= 1
     /\ proc.callbacks >= 1
     /\ ~(proc.db = "open" /\ proc.callbacks = 0)

C17_Witness == Exited /\ proc.db = "closed" /\ proc.callbacks = 1 /\ program = "mcp_stdio"

\* C18 (as claimed): the shutdown started by an interrupt drains the session
\* registry: when the process has exited every session was closed and its entry
\* removed.
C18_ShutdownDrainsRegistry ==
  Exited =>
     /\ transports = EmptyMap
     /\ \A r \in Reqs : ~Started(r)

\* ------------------------------------------------------------ session count
\* the GET /sse requests whose response stream is open
OpenConnections == { r \in Reqs : Started(r) }

\* C19 (as claimed): each open streaming connection has exactly one session: in
\* every reachable state the registry has as many entries as there are open
\* streaming connections.
C19_OneEntryPerOpenConnection ==
  Cardinality(Registry) = Cardinality(OpenConnections)

\* ---------------------------------------------------------- endpoint claims
\* the step answers a request to the health, /register or discovery endpoint
AnswersStub == last' # last /\ last'.kind \in {"health", "register", "discovery"}

\* C20: GET / answers {status: 'ok', name: <service name>} in every state, and the
\* health, /register and discovery endpoints leave the session registry (and the
\* sessions, transports and servers) unchanged.
C20_HealthAnswersAndStubsKeepRegistry ==
  [][/\ ENABLED GetHealth
     /\ (last' # last /\ last'.kind = "health") =>
           /\ last'.status = 200
           /\ last'.body = << "status", "ok", "name", ServiceName >>
     /\ AnswersStub => UNCHANGED << transports, pc, conn, minted, cleanups, servers >>]_vars

C20_Witness ==
  /\ last.kind = "health"
  /\ last.body = << "status", "ok", "name", ServiceName >>
  /\ Registry # {}
  /\ \E r \in Reqs : pc[r] = "connecting"
  /\ \E r \in Reqs : Closed(r)

\* -------------------------------------------------------- close during connect
\* the sessions under the scheduling of the event loop: a handler suspended at
\* `await server.connect(transport)` is resumed; clients need not ever disconnect
SpecLive == Spec /\ WF_vars(\E r \in Reqs : SseConnected(r))

\* C21 (as claimed): when a session's transport closes at any point after its id
\* was put in the registry, also while server.connect is in progress and
\* server.onclose is not yet set, the id is eventually removed from the registry.
C21_ClosedIdIsEventuallyRemoved ==
  \A r \in Reqs :
    (Closed(r) /\ MapHas(transports, conn[r].sessionId)) ~> ~MapHas(transports, conn[r].sessionId)

\* ------------------------------------------------------ list/dispatch claims
\* the names a tools/list request is answered with
Listed(p) == Range(ListTools(p).tools)

\* C22 (as claimed): listing and dispatch agree: a name is returned by tools/list
\* if and only if a call with that name is routed to a case of the switch and not
\* answered with the unknown-tool error; and tools/list always returns a result.
C22_ListAndDispatchAgree ==
  /\ IsList => last.res.returned
  /\ IsCall => (last.call.name \in Listed(program) <=> ~DefaultCaseTaken)

\* ------------------------------------------------------------ result claims
\* the arguments of the call handled last were refused before a handler ran: the
\* zod parse threw, or a field was read from absent arguments
ArgumentsRefused ==
  /\ last.fault # << >>
  /\ ~last.handler
  /\ last.fault[1] \in {"ZodError", "Cannot read properties of undefined"}

HandlerFaulted == last.handler /\ last.fault # << >>

IsSelectText(n) ==
  \E k \in 0..Len(Chars[n]) :
    /\ \A i \in 1..k : Chars[n][i] = " "
    /\ Len(Chars[n]) >= k + 6
    /\ \A i \in 1..6 :
         Chars[n][k + i] \in { << "S", "E", "L", "E", "C", "T" >>[i],
                               << "s", "e", "l", "e", "c", "t" >>[i] }

\* the call handled last was a custom_query with a text that reached the switch
\* case of a program that has the tool
AskedCustomQuery ==
  /\ IsCall
  /\ last.call.name = "custom_query"
  /\ program \in {"app_full", "mcp_stdio"}
  /\ last.call.hasArgs
  /\ last.call.args["query"].type = "string"

\* C24: a custom query reaches the Data Store only if its text, trimmed and
\* upper-cased, starts with SELECT; any other text is refused (error result of the
\* tool, status 400 of POST /api/custom-query) and no statement is issued for it.
C24_OnlySelectReachesStore ==
  AskedCustomQuery =>
     /\ last.db > 0 => IsSelectText(last.call.args["query"].v)
     /\ ~IsSelectText(last.call.args["query"].v) =>
          /\ last.res.isError
          /\ last.db = 0
          /\ program = "app_full" => Mentions(last.res.msg, OnlySelect)
          /\ (program = "mcp_stdio" /\ restUp) => Mentions(last.res.msg, "400")

C24_Witness ==
  /\ AskedCustomQuery
  /\ program = "mcp_stdio"
  /\ last.call.args["query"].v = 4
  /\ last.db = 1
  /\ ~last.res.isError

\* ------------------------------------------------------------ REST claims
\* the step is a tools/call of mcp-server.js for tool `name`, sent with arguments
\* while the REST backend runs: the tool's request reaches the backend's route
BackendRequest(name) ==
  /\ program = "mcp_stdio"
  /\ restUp
  /\ last'.kind = "call"
  /\ last'.call.name = name
  /\ last'.call.hasArgs

\* C25 (as claimed): every GET /api/ogrenciler/:id/ortalama request gets exactly
\* one response, status 500 when the query fails and the data object otherwise,
\* and the process keeps running afterwards.
C25_OrtalamaAnswersAndRuns ==
  [][BackendRequest("get_student_average") =>
        /\ restUp'
        /\ Mentions(last'.res.msg, "500") \/ ~last'.res.isError]_vars

\* the step is a delete_student request for row i that the backend answered 200
DeleteSucceeds(i) ==
  /\ BackendRequest("delete_student")
  /\ RowOf(last'.call.args["id"]) = i
  /\ ogrenciler[i] # "absent"
  /\ ~last'.res.isError

\* the step is an update_student request for row i that carries aktif = true
UpdateActivates(i) ==
  /\ BackendRequest("update_student")
  /\ RowOf(last'.call.args["id"]) = i
  /\ last'.call.args["aktif"] = Bool(1)

\* C26: deleting a student is a soft delete: after a successful delete the row
\* still exists (get-by-id finds it) and is in none of the active listings; it
\* stays out of them in every later state until an update sets aktif to 1, and a
\* repeated delete changes nothing.
C26_DeleteIsSoft ==
  [][\A i \in StudentIds :
       /\ DeleteSucceeds(i) =>
             /\ HasRow(ogrenciler', Num(i))
             /\ i \notin ActiveRows(ogrenciler')
             /\ \A j \in StudentIds \ {i} : ogrenciler'[j] = ogrenciler[j]
             /\ ogrenciler[i] = "aktif0" => ogrenciler' = ogrenciler
       /\ (i \notin ActiveRows(ogrenciler) /\ i \in ActiveRows(ogrenciler')) =>
             \/ UpdateActivates(i)
             \/ ogrenciler[i] = "absent"]_vars

C26_Witness ==
  /\ IsCall
  /\ program = "mcp_stdio"
  /\ last.call.name = "get_student_by_id"
  /\ last.call.args["id"] = Num(1)
  /\ ~last.res.isError
  /\ ogrenciler[1] = "aktif0"
  /\ ActiveRows(ogrenciler) = {}

\* the last step is an update_student call that the backend carried out on row i
UpdateSucceeds(i) ==
  /\ BackendRequest("update_student")
  /\ RowOf(last'.call.args["id"]) = i
  /\ ogrenciler[i] # "absent"
  /\ ~last'.res.isError

\* C27: an update of a student writes the columns from the request, whatever the
\* row held before: a field the request leaves out is set to null and not kept,
\* so an update_student call that gives only the id (no aktif) takes the student
\* out of the active listings; no other row is touched.
C27_UpdateOverwritesAbsentFields ==
  [][\A i \in StudentIds :
       UpdateSucceeds(i) =>
         /\ ogrenciler'[i] = AktifOf(last'.call.args["aktif"])
         /\ last'.call.args["aktif"] = Undefined =>
              /\ ogrenciler'[i] = "aktifNull"
              /\ i \notin ActiveRows(ogrenciler')
         /\ \A j \in StudentIds \ {i} : ogrenciler'[j] = ogrenciler[j]]_vars

C27_Witness ==
  /\ IsCall
  /\ program = "mcp_stdio"
  /\ last.call.name = "update_student"
  /\ last.call.args = With(NoFields, "id", Num(1))
  /\ ~last.res.isError
  /\ ogrenciler[1] = "aktifNull"
  /\ 1 \notin ActiveRows(ogrenciler)

\* the last step is a POST /message carrying the id of an open session
PostToOpenSession ==
  /\ last' # last
  /\ last'.kind = "post"
  /\ MapHas(transports, last'.sid)
  /\ Started(transports[last'.sid])

\* C28: a POST /message with the id of an open session is handed only to the
\* transport, and the server connected to it, that the GET /sse which minted the
\* id put in the registry under that id, never to another session's server; and
\* handing it over adds, removes and rebinds no registry entry.
C28_PostReachesOnlyItsSessionsServer ==
  [][PostToOpenSession =>
       LET r == transports[last'.sid] IN
         /\ conn[r].sessionId = last'.sid
         /\ reqQuery[r].sessionId = NoId
         /\ servers[r] = createMCPServer
         /\ last'.status = 202
         /\ last'.server = r
         /\ \A q \in Reqs \ {r} : Started(q) => conn[q].sessionId # last'.sid
         /\ transports' = transports
         /\ UNCHANGED << conn, servers, pc, reqQuery, minted, cleanups >>]_vars

C28_Witness ==
  /\ last.kind = "post"
  /\ last.status = 202
  /\ last.sid = 2
  /\ last.server = 2
  /\ Started(1)
  /\ Started(2)
  /\ transports[1] = 1
  /\ transports[2] = 2

\* the result the handler of the running program returns for call c when the store
\* answers o on the contents tbl (up: the backend of mcp-server.js is running)
AnswerOn(c, o, up, tbl) == CallTool(program, Switch(program, c, o, "aktif1", up, tbl))

\* in f, the sessions of r and q were answered the same call by the same store
\* contents and store outcome
SameQuestion(f, r, q) ==
  /\ f[r].state = "answered"
  /\ f[q].state = "answered"
  /\ f[r].call = f[q].call
  /\ f[r].store = f[q].store
  /\ f[r].tbl = f[q].tbl
  /\ f[r].up = f[q].up

====
